---- MODULE Spec2Model ----
(***************************************************************************)
(* The unit-test harness of the transform topology                         *)
(* (src/topology/unit_test.rs): the topology reducer, the test compiler    *)
(* build_unit_test and the evaluator UnitTest::run.                        *)
(*                                                                         *)
(* Three specifications share the definitions below:                       *)
(*   Spec        one call of build_unit_test(definition, config);          *)
(*   SpecReduce  reduce_transforms stepped call by call, with the Rust     *)
(*               call stack of links_to_a_leaf explicit;                   *)
(*   SpecRun     one call of UnitTest::run on a UnitTest value.            *)
(***************************************************************************)
EXTENDS Integers, Sequences, FiniteSets, TLC

VARIABLES
    pc,                 \* position of the modelled call
    config,             \* super::Config: transforms (inputs, builder outcome)
    definition,         \* TestDefinition
    result,             \* what build_unit_test returned, and what it did
    transform_outputs,  \* reduce_transforms: the adjacency being reduced
    link_checked,       \* reduce_transforms: the memo table
    stack,              \* links_to_a_leaf: frames of the calls in progress
    call,               \* links_to_a_leaf: argument of the call being entered
    ret,                \* links_to_a_leaf: <<value>> just returned, not yet used
    test,               \* UnitTest handed to run
    results,            \* run: the walk's aggregated_results
    errors              \* what run returned

vars == <<pc, config, definition, result, transform_outputs, link_checked,
          stack, call, ret, test, results, errors>>

(***************************************************************************)
(* Bounds of the model.                                                    *)
(***************************************************************************)
\* Size of a configuration with a test definition: input links, failing
\* builders, outputs and conditions together.
MaxSize == 4
\* Size of a UnitTest handed to run: next links, checks and conditions.
MaxTest == 3

\* config.transforms in its iteration order; "Z" is a name no transform has.
TransformOrder == <<"A", "B", "C">>
Nodes == {TransformOrder[i] : i \in 1..Len(TransformOrder)}
Names == Nodes \cup {"Z"}
\* A frame beyond this depth cannot belong to a terminating recursion: an
\* acyclic call chain visits each transform at most once.
MaxDepth == Cardinality(Nodes) + 1

None == "none"
EmptyMap == [x \in {} |-> x]

\* HashMap::insert(k, v)
Insert(m, k, v) == [x \in DOMAIN m \cup {k} |-> IF x = k THEN v ELSE m[x]]

\* The sequences over S of length at most n.
SeqsUpTo(S, n) == UNION {[1..k -> S] : k \in 0..n}

RECURSIVE Flatten(_)
Flatten(ss) == IF ss = <<>> THEN <<>> ELSE Head(ss) \o Flatten(Tail(ss))

Range(s) == {s[i] : i \in 1..Len(s)}

(***************************************************************************)
(* Reachability in the configured graph, stated independently of the       *)
(* reducer: the forward edge a -> b exists when transform b lists a as an  *)
(* input and both are configured transforms.                               *)
(***************************************************************************)
Edge(c, a, b) == a \in Nodes /\ b \in Nodes /\ a \in c.inputs[b]

RECURSIVE ReachSet(_, _)
ReachSet(c, S) ==
    LET T == S \cup {b \in Nodes : \E a \in S : Edge(c, a, b)}
    IN  IF T = S THEN S ELSE ReachSet(c, T)

\* b is reachable from a along forward edges (a path of length 0 counts).
Reaches(c, a, b) == b \in ReachSet(c, {a})

\* n lies on a path from root r to some leaf of L.
OnPath(c, r, L, n) == Reaches(c, r, n) /\ \E l \in L : Reaches(c, n, l)

Acyclic(c) == \A a \in Nodes : \A b \in Nodes : Edge(c, a, b) => ~Reaches(c, b, a)

(***************************************************************************)
(* build_unit_test, lines 141-153: the forward adjacency.                  *)
(***************************************************************************)
adjacency(c) == [k \in Nodes |-> {t \in Nodes : k \in c.inputs[t]}]

\* line 155 with the test dropped: every insert_at passes
target_located_always(outputs, insert_at) == TRUE
\* line 155: transform_outputs.contains_key(&definition.input.insert_at)
target_located(outputs, insert_at) == insert_at \in DOMAIN outputs

\* lines 163-166
leaves_of(d) == {d.outputs[i].extract_from : i \in 1..Len(d.outputs)}

(***************************************************************************)
(* links_to_a_leaf as a function.  active is the set of targets whose      *)
(* calls are in progress: the code has no such parameter, it is the Rust   *)
(* call stack.  A target is inserted into link_checked only when its call  *)
(* completes (line 104), so a call for an active target finds no memo      *)
(* entry and recurses again without end: overflow.                         *)
(***************************************************************************)
RECURSIVE links_to_a_leaf(_, _, _, _, _)
RECURSIVE filter_count(_, _, _, _, _, _)

links_to_a_leaf(target, leaves, checked, outputs, active) ==
    IF target \in DOMAIN checked
    THEN [linked |-> checked[target], link_checked |-> checked, overflow |-> FALSE]
    ELSE IF target \in leaves
    THEN [linked |-> TRUE, link_checked |-> Insert(checked, target, TRUE),
          overflow |-> FALSE]
    ELSE IF target \in active
    THEN [linked |-> FALSE, link_checked |-> checked, overflow |-> TRUE]
    ELSE IF target \in DOMAIN outputs
    THEN LET r == filter_count(outputs[target], leaves, checked, outputs,
                               active \cup {target}, 0)
         IN  IF r.overflow
             THEN [linked |-> FALSE, link_checked |-> r.link_checked,
                   overflow |-> TRUE]
             ELSE [linked |-> r.count > 0,
                   link_checked |-> Insert(r.link_checked, target, r.count > 0),
                   overflow |-> FALSE]
    ELSE [linked |-> FALSE, link_checked |-> Insert(checked, target, FALSE),
          overflow |-> FALSE]

\* lines 96-100: outputs.iter().filter(links_to_a_leaf).count(); every
\* element is visited.  The map's iteration order is fixed here by CHOOSE;
\* SpecReduce takes every order, and ReduceAgrees states that the outcome
\* is the same.
filter_count(todo, leaves, checked, outputs, active, count) ==
    IF todo = {}
    THEN [count |-> count, link_checked |-> checked, overflow |-> FALSE]
    ELSE LET o == CHOOSE x \in todo : TRUE
             r == links_to_a_leaf(o, leaves, checked, outputs, active)
         IN  IF r.overflow
             THEN [count |-> count, link_checked |-> r.link_checked,
                   overflow |-> TRUE]
             ELSE filter_count(todo \ {o}, leaves, r.link_checked, outputs,
                               active, count + (IF r.linked THEN 1 ELSE 0))

\* lines 122 and 126 with unwrap_or(&true): an unvisited name counts as linked
is_linked_default_true(checked, name) ==
    IF name \in DOMAIN checked THEN checked[name] ELSE TRUE
\* lines 122 and 126: link_checked.get(name).unwrap_or(&false)
is_linked(checked, name) ==
    IF name \in DOMAIN checked THEN checked[name] ELSE FALSE

\* reduce_transforms, lines 117-130, given the outcome of the root's call.
retain_linked(root, linked, checked, outputs) ==
    LET cleared == IF ~linked THEN EmptyMap ELSE outputs
        kept == {name \in DOMAIN cleared : name = root \/ is_linked(checked, name)}
    IN  [name \in kept |->
            {child \in cleared[name] : name = root \/ is_linked(checked, child)}]

reduce_transforms(root, leaves, outputs) ==
    LET r == links_to_a_leaf(root, leaves, EmptyMap, outputs, {})
    IN  IF r.overflow
        THEN [overflow |-> TRUE, transform_outputs |-> outputs,
              link_checked |-> r.link_checked]
        ELSE [overflow |-> FALSE,
              transform_outputs |->
                  retain_linked(root, r.linked, r.link_checked, outputs),
              link_checked |-> r.link_checked]

(***************************************************************************)
(* build_unit_test.  Error messages are the strings format! produces.      *)
(* A transform's builder fails when config.fails names it (for concat:     *)
(* Substring::new rejects an item); a built transform is its inner kind.   *)
(***************************************************************************)
BuildErr == "invalid substring"

\* line 156
locate_message(insert_at) == "unable to locate test target '" \o insert_at \o "'"
\* line 187
build_message(name) == "failed to build transform '" \o name \o "': " \o BuildErr
\* line 199
topology_message(insert_at, extract_from) ==
    "unable to complete topology between input target '" \o insert_at
        \o "' and '" \o extract_from \o "'"
\* line 212
value_message == "input type 'raw' requires the field 'value'"
\* line 217
type_message(type_str) ==
    "unrecognized input type '" \o type_str \o "', expected one of: 'raw'"
\* line 237
condition_message(k) ==
    "failed to create test condition '" \o k \o "': " \o "invalid condition"
\* line 245
string_message(k) ==
    "failed to create test condition '" \o k
        \o "': string conditions are not yet supported"

\* lines 173-191: the loop over config.transforms, from position i on.
\* acc = [transforms, errors, remaining, built].
RECURSIVE build_transforms(_, _, _)
build_transforms(c, i, acc) ==
    IF i > Len(TransformOrder) THEN acc
    ELSE LET name == TransformOrder[i]
         IN  IF name \in DOMAIN acc.remaining
             THEN LET outputs == acc.remaining[name]
                      rest == [n \in DOMAIN acc.remaining \ {name} |->
                                  acc.remaining[n]]
                  IN  IF name \notin c.fails
                      THEN build_transforms(c, i + 1,
                             [transforms |->
                                  Insert(acc.transforms, name,
                                         [transform |-> c.inner[name],
                                          next |-> outputs]),
                              errors |-> acc.errors,
                              remaining |-> rest,
                              built |-> acc.built \cup {name}])
                      ELSE build_transforms(c, i + 1,
                             [transforms |-> acc.transforms,
                              errors |-> Append(acc.errors, build_message(name)),
                              remaining |-> rest,
                              built |-> acc.built \cup {name}])
             ELSE build_transforms(c, i + 1, acc)

\* lines 197-204, with the missing-key test inverted
topology_errors_inverted(d, outputs) ==
    Flatten([i \in 1..Len(d.outputs) |->
        IF d.outputs[i].extract_from \in DOMAIN outputs
        THEN <<topology_message(d.input.insert_at, d.outputs[i].extract_from)>>
        ELSE <<>>])
\* lines 197-204
topology_errors(d, outputs) ==
    Flatten([i \in 1..Len(d.outputs) |->
        IF d.outputs[i].extract_from \notin DOMAIN outputs
        THEN <<topology_message(d.input.insert_at, d.outputs[i].extract_from)>>
        ELSE <<>>])

\* lines 208-223, with the missing value accepted silently
input_event_lenient(d) ==
    IF d.input.type_str = "raw"
    THEN IF d.input.value # None
         THEN [event |-> d.input.value, errors |-> <<>>]
         ELSE [event |-> "", errors |-> <<>>]
    ELSE [event |-> "", errors |-> <<type_message(d.input.type_str)>>]
\* lines 208-223: Event::from(v) is the event carrying the payload v
input_event(d) ==
    IF d.input.type_str = "raw"
    THEN IF d.input.value # None
         THEN [event |-> d.input.value, errors |-> <<>>]
         ELSE [event |-> "", errors |-> <<value_message>>]
    ELSE [event |-> "", errors |-> <<type_message(d.input.type_str)>>]

\* lines 228-248 for one output: conds is o.conditions in iteration order.
condition_errors(conds) ==
    Flatten([j \in 1..Len(conds) |->
        IF conds[j].kind = "embedded" /\ conds[j].builds THEN <<>>
        ELSE IF conds[j].kind = "embedded"
        THEN <<condition_message(conds[j].name)>>
        ELSE <<string_message(conds[j].name)>>])

is_embedded(cond_conf) == cond_conf.kind = "embedded"

built_conditions(conds) ==
    LET ok == {j \in 1..Len(conds) : conds[j].kind = "embedded" /\ conds[j].builds}
    IN  [k \in {conds[j].name : j \in ok} |->
            (CHOOSE j \in ok : conds[j].name = k)]

\* lines 226-253
build_checks(d) ==
    [checks |-> [i \in 1..Len(d.outputs) |->
                    [extract_from |-> d.outputs[i].extract_from,
                     conditions |->
                        LET conds == d.outputs[i].conditions
                            b == built_conditions(conds)
                        IN  [k \in DOMAIN b |-> conds[b[k]].accepts]]],
     errors |-> Flatten([i \in 1..Len(d.outputs) |->
                    condition_errors(d.outputs[i].conditions)]),
     \* the calls of b.build(), line 231
     builds |-> Len(Flatten([i \in 1..Len(d.outputs) |->
                    SelectSeq(d.outputs[i].conditions, is_embedded)]))]

\* What the call did besides returning: kept for the properties.
NoTrace ==
    [reduced |-> FALSE, retained |-> EmptyMap, transforms |-> EmptyMap,
     built |-> {}, cond_builds |-> 0]

\* lines 133-265
build_unit_test(d, c) ==
    LET outputs0 == adjacency(c)
        root == d.input.insert_at
    IN
    IF ~target_located(outputs0, root)
    THEN [kind |-> "err", errors |-> <<locate_message(root)>>, test |-> None,
          trace |-> NoTrace]
    ELSE
    LET red == reduce_transforms(root, leaves_of(d), outputs0) IN
    IF red.overflow
    THEN [kind |-> "overflow", errors |-> <<>>, test |-> None,
          trace |-> [NoTrace EXCEPT !.reduced = TRUE]]
    ELSE
    LET bt == build_transforms(c, 1,
                  [transforms |-> EmptyMap, errors |-> <<>>,
                   remaining |-> red.transform_outputs, built |-> {}])
        tr == [reduced |-> TRUE, retained |-> red.transform_outputs,
               transforms |-> bt.transforms, built |-> bt.built,
               cond_builds |-> 0]
    IN
    IF bt.errors # <<>>
    THEN [kind |-> "err", errors |-> bt.errors, test |-> None, trace |-> tr]
    ELSE
    LET ev == input_event(d)
        ch == build_checks(d)
        errs == topology_errors(d, bt.remaining) \o ev.errors \o ch.errors
        tr2 == [tr EXCEPT !.cond_builds = ch.builds]
    IN
    IF errs # <<>>
    THEN [kind |-> "err", errors |-> errs, test |-> None, trace |-> tr2]
    ELSE [kind |-> "ok", errors |-> <<>>,
          test |-> [name |-> d.name, input |-> <<root, ev.event>>,
                    transforms |-> bt.transforms, checks |-> ch.checks],
          trace |-> tr2]

(***************************************************************************)
(* The inputs of build_unit_test: every configuration over the transforms  *)
(* of TransformOrder and every test definition, of total size at most      *)
(* MaxSize.                                                                *)
(***************************************************************************)
Events == {"v", "v+"}   \* the raw event, and it with a field set by concat

EdgeCount(inputs) ==
    Cardinality({<<t, i>> \in Nodes \X Names : i \in inputs[t]})

ConfigSize(c) == EdgeCount(c.inputs) + Cardinality(c.fails)

Configs(FailSets) ==
    {c \in [inputs : [Nodes -> SUBSET Names], fails : FailSets,
            inner : {[n \in Nodes |-> "concat"]}] :
        ConfigSize(c) <= MaxSize}

CondName(j) == "c" \o ToString(j)

\* One TestCondition: Embedded(b) whose build succeeds, Embedded(b) whose
\* build fails, or String(_).
CondConfs(j) ==
    {[name |-> CondName(j), kind |-> "embedded", builds |-> TRUE, accepts |-> Events],
     [name |-> CondName(j), kind |-> "embedded", builds |-> FALSE, accepts |-> Events],
     [name |-> CondName(j), kind |-> "string", builds |-> FALSE, accepts |-> {}]}

\* o.conditions in iteration order, at most n of them.
CondSeqs(n) ==
    UNION {{s \in [1..k -> UNION {CondConfs(j) : j \in 1..k}] :
                \A j \in 1..k : s[j] \in CondConfs(j)} : k \in 0..n}

\* definition.outputs of size at most b; conds: whether outputs carry conditions.
RECURSIVE OutputSeqs(_, _)
OutputSeqs(b, conds) ==
    IF b <= 0 THEN {<<>>}
    ELSE {<<>>} \cup
         UNION {{<<o>> \o rest :
                    rest \in OutputSeqs(b - 1 - Len(o.conditions), conds)} :
                o \in [extract_from : Names,
                       conditions : CondSeqs(IF conds THEN b - 1 ELSE 0)]}

RawInput(n) == [insert_at |-> n, type_str |-> "raw", value |-> "v"]

TestInputs ==
    {RawInput(n) : n \in Names}
    \cup {[insert_at |-> n, type_str |-> "raw", value |-> None] : n \in Names}
    \cup {[insert_at |-> n, type_str |-> "json", value |-> "v"] : n \in Names}

Definitions(b) ==
    [name : {"t"}, input : TestInputs, outputs : OutputSeqs(b, TRUE)]

(***************************************************************************)
(* Spec: one call of build_unit_test.                                      *)
(***************************************************************************)
ReducerIdle ==
    /\ transform_outputs = EmptyMap /\ link_checked = EmptyMap
    /\ stack = <<>> /\ call = None /\ ret = <<>>

Init ==
    /\ pc = "start"
    /\ config \in Configs(SUBSET Nodes)
    /\ definition \in Definitions(MaxSize - ConfigSize(config))
    /\ result = None
    /\ ReducerIdle
    /\ test = None /\ results = EmptyMap /\ errors = <<>>

BuildUnitTest ==
    /\ pc = "start"
    /\ result' = build_unit_test(definition, config)
    /\ pc' = "returned"
    /\ UNCHANGED <<config, definition, transform_outputs, link_checked, stack,
                   call, ret, test, results, errors>>

Next == BuildUnitTest

Spec == Init /\ [][Next]_vars

(***************************************************************************)
(* SpecReduce: reduce_transforms as build_unit_test calls it (line 170),   *)
(* one call or return of links_to_a_leaf per step.  A frame is a call past *)
(* its memo and leaf tests: its target, the outputs its filter has not yet *)
(* visited, and the filter's count so far.                                 *)
(***************************************************************************)
InitReduce ==
    /\ pc = "reduce"
    /\ config \in Configs({{}})
    /\ definition \in [name : {"t"}, input : {RawInput(n) : n \in Nodes},
                       outputs : OutputSeqs(MaxSize - ConfigSize(config), FALSE)]
    /\ result = None
    /\ transform_outputs = adjacency(config)
    /\ link_checked = EmptyMap
    /\ stack = <<>>
    /\ call = definition.input.insert_at    \* line 117
    /\ ret = <<>>
    /\ test = None /\ results = EmptyMap /\ errors = <<>>

Top == stack[Len(stack)]
SetTop(f) == [stack EXCEPT ![Len(stack)] = f]

\* lines 91-95 and 101-103: a call is entered.
LinksEnter ==
    /\ pc = "reduce" /\ call # None
    /\ call' = None
    /\ IF call \in DOMAIN link_checked
       THEN /\ ret' = <<link_checked[call]>>
            /\ UNCHANGED <<pc, link_checked, stack>>
       ELSE IF call \in leaves_of(definition)
       THEN /\ link_checked' = Insert(link_checked, call, TRUE)
            /\ ret' = <<TRUE>>
            /\ UNCHANGED <<pc, stack>>
       ELSE IF call \in DOMAIN transform_outputs
       THEN IF Len(stack) < MaxDepth
            THEN /\ stack' = Append(stack, [target |-> call,
                                            todo |-> transform_outputs[call],
                                            count |-> 0])
                 /\ UNCHANGED <<pc, link_checked, ret>>
            ELSE /\ pc' = "overflow"
                 /\ UNCHANGED <<link_checked, stack, ret>>
       ELSE /\ link_checked' = Insert(link_checked, call, FALSE)
            /\ ret' = <<FALSE>>
            /\ UNCHANGED <<pc, stack>>
    /\ UNCHANGED <<config, definition, result, transform_outputs, test, results, errors>>

\* lines 96-98: the filter visits the next output, in the map's order.
LinksFilter ==
    /\ pc = "reduce" /\ call = None /\ ret = <<>>
    /\ stack # <<>> /\ Top.todo # {}
    /\ \E o \in Top.todo :
        /\ call' = o
        /\ stack' = SetTop([Top EXCEPT !.todo = @ \ {o}])
    /\ UNCHANGED <<pc, config, definition, result, transform_outputs,
                   link_checked, ret, test, results, errors>>

\* lines 98-99: the filter counts the output when its call returned true.
LinksCount ==
    /\ pc = "reduce" /\ ret # <<>> /\ stack # <<>>
    /\ stack' = SetTop([Top EXCEPT !.count = @ + (IF ret[1] THEN 1 ELSE 0)])
    /\ ret' = <<>>
    /\ UNCHANGED <<pc, config, definition, result, transform_outputs,
                   link_checked, call, test, results, errors>>

\* lines 99-105: the filter is exhausted, the call returns.
LinksReturn ==
    /\ pc = "reduce" /\ call = None /\ ret = <<>>
    /\ stack # <<>> /\ Top.todo = {}
    /\ link_checked' = Insert(link_checked, Top.target, Top.count > 0)
    /\ ret' = <<Top.count > 0>>
    /\ stack' = SubSeq(stack, 1, Len(stack) - 1)
    /\ UNCHANGED <<pc, config, definition, result, transform_outputs, call,
                   test, results, errors>>

\* lines 117-130: the root's call has returned.
Retain ==
    /\ pc = "reduce" /\ call = None /\ ret # <<>> /\ stack = <<>>
    /\ transform_outputs' =
           retain_linked(definition.input.insert_at, ret[1], link_checked,
                         transform_outputs)
    /\ ret' = <<>>
    /\ pc' = "reduced"
    /\ UNCHANGED <<config, definition, result, link_checked, stack, call,
                   test, results, errors>>

NextReduce == LinksEnter \/ LinksFilter \/ LinksCount \/ LinksReturn \/ Retain

SpecReduce == InitReduce /\ [][NextReduce]_vars

\* The stepped reducer and the function agree, whatever the order in which
\* the filter visits the outputs.
ReduceAgrees ==
    LET r == reduce_transforms(definition.input.insert_at, leaves_of(definition),
                               adjacency(config))
    IN  /\ pc = "reduced" =>
            /\ ~r.overflow
            /\ transform_outputs = r.transform_outputs
            /\ link_checked = r.link_checked
        /\ pc = "overflow" => r.overflow

(***************************************************************************)
(* UnitTest::run.  A live transform is its kind: concat emits the event    *)
(* with the target field set (concat.rs, transform returns Some), drop     *)
(* declines to emit, pass emits its input unchanged.  A live condition is  *)
(* the set of events its check accepts.                                    *)
(***************************************************************************)
Kinds == {"concat", "drop", "pass"}

\* Transform::transform: Some(event) or None, as a sequence of 0 or 1 events.
transform(kind, input) ==
    IF kind = "concat" THEN <<"v+">>
    ELSE IF kind = "pass" THEN <<input>>
    ELSE <<>>

\* target.transform.transform_into(&mut results, input), line 41: appends
\* what transform returns.
transform_into(kind, out, input) == out \o transform(kind, input)

RECURSIVE transform_all(_, _, _)
transform_all(kind, out, inputs) ==
    IF inputs = <<>> THEN out
    ELSE transform_all(kind, transform_into(kind, out, Head(inputs)), Tail(inputs))

\* lines 30-50
RECURSIVE walk(_, _, _, _)
RECURSIVE walk_children(_, _, _, _)

walk(node, inputs, transforms, aggregated_results) ==
    LET known == node \in DOMAIN transforms
        res == IF known
               THEN transform_all(transforms[node].transform, <<>>, inputs)
               ELSE <<>>
        targets == IF known THEN transforms[node].next ELSE <<>>
    IN  Insert(walk_children(targets, res, transforms, aggregated_results),
               node, res)

walk_children(targets, res, transforms, aggregated_results) ==
    IF targets = <<>> THEN aggregated_results
    ELSE walk_children(Tail(targets), res, transforms,
                       walk(Head(targets), res, transforms, aggregated_results))

\* line 73
found_none_message(extract_from) ==
    "expected resulting events from transform '" \o extract_from
        \o "', found none"

\* cond.check(e)
check_condition(accepts, e) == e \in accepts

\* lines 66-70: a condition no event satisfies pushes nothing (the branch
\* holds only a TODO comment).
unmet_conditions(check, events) ==
    Flatten([k \in 1..Cardinality(DOMAIN check.conditions) |->
        IF ~\E i \in 1..Len(events) :
                check_condition(check.conditions[CondName(k)], events[i])
        THEN <<>>
        ELSE <<>>])

\* lines 64-77
check_errors(check, res) ==
    IF check.extract_from \in DOMAIN res
    THEN unmet_conditions(check, res[check.extract_from])
    ELSE <<found_none_message(check.extract_from)>>

\* lines 53-80
run(t) ==
    LET res == walk(t.input[1], <<t.input[2]>>, t.transforms, EmptyMap)
    IN  [results |-> res,
         errors |-> Flatten([i \in 1..Len(t.checks) |->
                                check_errors(t.checks[i], res)])]

(***************************************************************************)
(* SpecRun: one call of run on a UnitTest of size at most MaxTest.  The    *)
(* next links lead from a transform to names later in TransformOrder (or   *)
(* to "Z", which no transform has): every acyclic shape up to renaming.    *)
(***************************************************************************)
Later(n) ==
    {"Z"} \cup {TransformOrder[j] : j \in {i \in 1..Len(TransformOrder) :
                    \E k \in 1..(i - 1) : TransformOrder[k] = n}}

NextSeqs(n) ==
    {s \in SeqsUpTo(Later(n), Cardinality(Later(n))) :
        \A i \in 1..Len(s) : \A j \in 1..Len(s) : i # j => s[i] # s[j]}

LinkCount(m) ==
    Cardinality({<<n, i>> \in (DOMAIN m) \X (1..Cardinality(Names)) :
                    i <= Len(m[n].next)})

\* test.transforms with at most b next links.
TransformMaps(b) ==
    UNION {{m \in [P -> [transform : Kinds,
                         next : UNION {NextSeqs(n) : n \in P}]] :
                /\ \A n \in P : m[n].next \in NextSeqs(n)
                /\ LinkCount(m) <= b} : P \in SUBSET Nodes}

CondMaps(n) ==
    UNION {[{CondName(j) : j \in 1..k} -> SUBSET Events] : k \in 0..n}

RECURSIVE CheckSeqs(_)
CheckSeqs(b) ==
    IF b <= 0 THEN {<<>>}
    ELSE {<<>>} \cup
         UNION {{<<c>> \o rest :
                    rest \in CheckSeqs(b - 1 - Cardinality(DOMAIN c.conditions))} :
                c \in [extract_from : Names, conditions : CondMaps(b - 1)]}

InitRun ==
    /\ pc = "ready"
    /\ config = None /\ definition = None /\ result = None
    /\ ReducerIdle
    /\ \E m \in TransformMaps(MaxTest) :
        /\ \E n \in Names : \E cs \in CheckSeqs(MaxTest - LinkCount(m)) :
            test = [name |-> "t", input |-> <<n, "v">>, transforms |-> m,
                    checks |-> cs]
    /\ results = EmptyMap /\ errors = <<>>

Run ==
    /\ pc = "ready"
    /\ results' = run(test).results
    /\ errors' = run(test).errors
    /\ pc' = "ran"
    /\ UNCHANGED <<config, definition, result, transform_outputs, link_checked,
                   stack, call, ret, test>>

NextRun == Run

SpecRun == InitRun /\ [][NextRun]_vars

(***************************************************************************)
(* Properties.                                                             *)
(***************************************************************************)
Returned == pc = "returned" /\ result.kind # "overflow"
Root == definition.input.insert_at
Leaves == leaves_of(definition)
Outs == definition.outputs
Listed(msg, list) == \E i \in 1..Len(list) : list[i] = msg

\* a occurs in b as a subsequence: all of a's elements, in a's order.
RECURSIVE IsSubseq(_, _)
IsSubseq(a, b) ==
    IF a = <<>> THEN TRUE
    ELSE IF b = <<>> THEN FALSE
    ELSE IF Head(a) = Head(b) THEN IsSubseq(Tail(a), Tail(b))
    ELSE IsSubseq(a, Tail(b))

\* The messages the compile steps owe, step by step.
OwedBuild ==
    Flatten([i \in 1..Len(TransformOrder) |->
        IF /\ TransformOrder[i] \in DOMAIN result.trace.retained
           /\ TransformOrder[i] \in config.fails
        THEN <<build_message(TransformOrder[i])>> ELSE <<>>])
OwedTopology ==
    Flatten([i \in 1..Len(Outs) |->
        IF Outs[i].extract_from \notin DOMAIN result.trace.retained
        THEN <<topology_message(Root, Outs[i].extract_from)>> ELSE <<>>])
OwedInput ==
    IF definition.input.type_str # "raw"
    THEN <<type_message(definition.input.type_str)>>
    ELSE IF definition.input.value = None THEN <<value_message>> ELSE <<>>
OwedConditions ==
    Flatten([i \in 1..Len(Outs) |->
        Flatten([j \in 1..Len(Outs[i].conditions) |->
            LET cc == Outs[i].conditions[j]
            IN  IF cc.kind = "string" THEN <<string_message(cc.name)>>
                ELSE IF ~cc.builds THEN <<condition_message(cc.name)>>
                ELSE <<>>])])

\* C1: with insert_at configured, the graph acyclic, every extract_from
\* reachable from insert_at, every transform on a path building, a raw input
\* with a value and every condition embedded and building, build_unit_test
\* returns a UnitTest, and records no 'unable to complete topology' error.
C1_ReachableTestBuilds ==
    (/\ pc = "returned"
     /\ Root \in Nodes
     /\ Acyclic(config)
     /\ \A l \in Leaves : Reaches(config, Root, l)
     /\ \A n \in config.fails : ~OnPath(config, Root, Leaves, n)
     /\ OwedInput = <<>>
     /\ OwedConditions = <<>>)
    => /\ result.kind = "ok"
       /\ \A l \in Leaves : ~Listed(topology_message(Root, l), result.errors)

\* C3 as stated: whenever build_unit_test returns for a configured insert_at
\* and some extract_from is not reachable from it, the call fails and lists
\* the topology message for that extract_from, whatever else is wrong.
C3_UnreachableAlwaysListed ==
    (Returned /\ Root \in Nodes) =>
        \A l \in Leaves :
            ~Reaches(config, Root, l) =>
                /\ result.kind = "err"
                /\ Listed(topology_message(Root, l), result.errors)

\* C3 amended: the call fails; the topology message is listed provided no
\* retained transform failed to build (line 193 returns the build errors
\* alone).
C3_UnreachableListedUnlessBuildFails ==
    (Returned /\ Root \in Nodes) =>
        \A l \in Leaves :
            ~Reaches(config, Root, l) =>
                /\ result.kind = "err"
                /\ OwedBuild = <<>> =>
                       Listed(topology_message(Root, l), result.errors)

C3_Witness ==
    /\ Returned /\ Root \in Nodes
    /\ result.kind = "err"
    /\ OwedBuild = <<>>
    /\ result.trace.built # {}
    /\ \E l \in Leaves \cap Nodes :
        /\ ~Reaches(config, Root, l)
        /\ Listed(topology_message(Root, l), result.errors)

\* C6: every next list the compiler stores names only transforms the
\* reducer retained.
C6_NextNamesRetained ==
    pc = "returned" =>
        \A n \in DOMAIN result.trace.transforms :
            result.trace.transforms[n].next \subseteq DOMAIN result.trace.retained

\* C8 as stated: for a configured insert_at the returned error list holds
\* every owed message (build, topology, input, condition) in step order.
C8_AllErrorsListed ==
    (Returned /\ Root \in Nodes) =>
        IsSubseq(OwedBuild \o OwedTopology \o OwedInput \o OwedConditions,
                 result.errors)

\* C8 amended: when a retained transform fails to build the list is exactly
\* the build messages; otherwise it holds every owed topology, input and
\* condition message in step order.
C8_ErrorsListedUnlessBuildFails ==
    (Returned /\ Root \in Nodes) =>
        IF OwedBuild # <<>>
        THEN result.kind = "err" /\ result.errors = OwedBuild
        ELSE /\ IsSubseq(OwedTopology \o OwedInput \o OwedConditions,
                         result.errors)
             /\ (OwedTopology \o OwedInput \o OwedConditions # <<>>
                    => result.kind = "err")

C8_Witness ==
    /\ Returned /\ Root \in Nodes
    /\ OwedBuild = <<>>
    /\ OwedTopology # <<>> /\ OwedInput # <<>> /\ OwedConditions # <<>>
    /\ result.kind = "err"
    /\ Len(result.errors) >= 3

\* C9: an insert_at that names no transform yields exactly the one 'unable
\* to locate' message; the reducer is not run and no builder is invoked.
C9_MissingTargetIsFatal ==
    (pc = "returned" /\ Root \notin Nodes) =>
        /\ result.kind = "err"
        /\ result.errors = <<"unable to locate test target '" \o Root \o "'">>
        /\ ~result.trace.reduced
        /\ result.trace.built = {}
        /\ result.trace.cond_builds = 0

C9_Witness ==
    /\ pc = "returned" /\ Root = "Z"
    /\ config.fails # {}
    /\ OwedInput # <<>> /\ OwedConditions # <<>>
    /\ Len(result.errors) = 1

\* C4: on an acyclic graph every transform on a path from the root to a
\* leaf is still a key after reduce_transforms.
C4_ReducerComplete ==
    (pc = "reduced" /\ Acyclic(config)) =>
        \A n \in Nodes :
            OnPath(config, Root, Leaves, n) => n \in DOMAIN transform_outputs

\* C5: every key left by reduce_transforms lies on a path from the root to
\* a leaf of the original graph, and no key is left when the root reaches no
\* leaf.
C5_ReducerSound ==
    pc = "reduced" =>
        /\ \A n \in DOMAIN transform_outputs : OnPath(config, Root, Leaves, n)
        /\ (~\E l \in Leaves : Reaches(config, Root, l))
               => transform_outputs = EmptyMap

C5_Witness ==
    /\ pc = "reduced" /\ Acyclic(config)
    /\ \E n \in Nodes \ DOMAIN transform_outputs : Reaches(config, Root, n)
    /\ \E n \in DOMAIN transform_outputs : n # Root

\* C10: the recursion terminates on every graph: a target whose call is in
\* progress is never entered again, and when the reducer is done
\* link_checked holds true exactly for the visited transforms that reach a
\* leaf.
C10_NoReentry ==
    /\ pc # "overflow"
    /\ \A i \in 1..Len(stack) : \A j \in 1..Len(stack) :
           i # j => stack[i].target # stack[j].target
    /\ pc = "reduced" =>
           \A n \in DOMAIN link_checked :
               link_checked[n] <=> \E l \in Leaves : Reaches(config, n, l)

\* C2: when every walked name is a transform and every check's extract_from
\* has recorded results, run returns the empty list exactly when every condition of every check is satisfied
\* by a recorded event, and lists a failure for every unsatisfied condition.
Satisfied(c, k) ==
    \E i \in 1..Len(results[c.extract_from]) :
        results[c.extract_from][i] \in c.conditions[k]
Unsatisfied ==
    {<<i, k>> \in (1..Len(test.checks)) \X {CondName(j) : j \in 1..MaxTest} :
        /\ k \in DOMAIN test.checks[i].conditions
        /\ ~Satisfied(test.checks[i], k)}
C2_RunReportsConditions ==
    (/\ pc = "ran"
     /\ DOMAIN results \subseteq DOMAIN test.transforms
     /\ \A i \in 1..Len(test.checks) :
            test.checks[i].extract_from \in DOMAIN results)
    => /\ errors = <<>> <=> Unsatisfied = {}
       /\ Len(errors) >= Cardinality(Unsatisfied)

\* C7: a check whose extract_from was walked but holds no events, every
\* walked name being a transform, is answered with the 'found none' message.
C7_EmptyIsFoundNone ==
    (pc = "ran" /\ DOMAIN results \subseteq DOMAIN test.transforms) =>
        \A i \in 1..Len(test.checks) :
            LET l == test.checks[i].extract_from
            IN  (l \in DOMAIN results /\ results[l] = <<>>) =>
                    Listed("expected resulting events from transform '" \o l
                               \o "', found none", errors)

====
